---- MODULE Spec2Model ----
(***************************************************************************)
(* Model of app.py: an Agent-P (therapist) / Agent-H (peer) chat front end *)
(* that logs every message to a CSV file, extracts {text, emotion, plan}   *)
(* from the model's reply, stores the plan in one JSON file per            *)
(* participant and selects the scenarios of a day from it.                 *)
(*                                                                         *)
(* Strings are sequences of lexemes.  A lexeme is a run of characters the  *)
(* code never looks inside:                                                *)
(*   "F"    the fence marker ```            "NL", "SP"  whitespace         *)
(*   "LB"   {       "RB"  }                 "w"   a prose word             *)
(*   "n"    a JSON number literal           "nul" the literal null         *)
(*   "T"    the member  "text": "ok"        "E"   the member               *)
(*   "PK"   the key     "plan":                   "emotion": "sad"         *)
(*   "SC0" "SC1" "SC6" "SC6L"  the member "scenarios": [...] with 0, 1, 6  *)
(*          untagged and 6 level-tagged scenarios                          *)
(*   "emoji" a character cp932 cannot encode, "?" its replacement          *)
(* The braces of the scenario objects inside an SC lexeme are not          *)
(* represented; a slice that would start or end on one of them either does *)
(* not parse or parses to a scenario object, which has no text, emotion or *)
(* plan key, so the extracted result is the one computed here.             *)
(***************************************************************************)
EXTENDS Integers, Sequences, FiniteSets, TLC

VARIABLES
    session_state,  \* st.session_state of every browser session
    pending,        \* per session: the turn waiting on requests.post, or idle
    logFile,        \* logs/chat_logs.csv
    planFiles,      \* plans/<participant>_plan.json, by file name
    lastSaved,      \* by participant: the plan of the latest save_plan_to_file
    lastTurn,       \* what the most recent step of a script run did
    content,        \* extraction alone: the text a reply wraps
    wrapper,        \* extraction alone: what the reply puts around it
    extracted,      \* extraction alone: Extract of the reply and of the content
    mPlan,          \* scenario selection alone: the plan
    mDay,           \* scenario selection alone: the day
    mSelected       \* scenario selection alone: scenarios_for_day(mPlan, mDay)

vars == <<session_state, pending, logFile, planFiles, lastSaved, lastTurn,
          content, wrapper, extracted, mPlan, mDay, mSelected>>

progVars == <<session_state, pending, logFile, planFiles, lastSaved, lastTurn>>
extractVars == <<content, wrapper, extracted>>
mapperVars == <<mPlan, mDay, mSelected>>

-----------------------------------------------------------------------------
(* Bounds *)

MaxRows == 4           \* rows of the conversation log
MaxBody == 4           \* lexemes between the wrappers of an enumerated reply
MaxScenarios == 4      \* scenarios of an enumerated (tagged or untagged) plan
MaxUntagged == 7       \* scenarios of an enumerated plan of distinct untagged ones

-----------------------------------------------------------------------------
(* Python values *)

None == [type |-> "null"]
Number == [type |-> "number"]
Dict(f) == [type |-> "dict", val |-> f]
List(s) == [type |-> "list", val |-> s]
EmptyDict == Dict(<<>>)

isinstance_dict(v) == v.type = "dict"

\* d.get(k, default) of a dict
Get(d, k, default) == IF k \in DOMAIN d.val THEN d.val[k] ELSE default

\* bool(v) of a parsed JSON value
Truthy(v) ==
    CASE v.type = "null" -> FALSE
      [] v.type = "number" -> TRUE
      [] v.type = "dict" -> DOMAIN v.val # {}
      [] v.type = "list" -> Len(v.val) > 0

\* d[k] = v on a copy of the mapping f
Put(f, k, v) == [x \in DOMAIN f \cup {k} |-> IF x = k THEN v ELSE f[x]]

-----------------------------------------------------------------------------
(* str methods, with Python's 0-based indices and -1 for "not found" *)

Whitespace == {"NL", "SP"}

RECURSIVE lstrip(_)
lstrip(s) == IF s # <<>> /\ Head(s) \in Whitespace THEN lstrip(Tail(s)) ELSE s

RECURSIVE rstrip(_)
rstrip(s) ==
    IF s # <<>> /\ s[Len(s)] \in Whitespace
    THEN rstrip(SubSeq(s, 1, Len(s) - 1))
    ELSE s

strip(s) == rstrip(lstrip(s))

startswith(s, c) == s # <<>> /\ Head(s) = c

find(s, c) ==
    IF \E i \in 1..Len(s) : s[i] = c
    THEN (CHOOSE i \in 1..Len(s) : s[i] = c /\ \A j \in 1..(i - 1) : s[j] # c) - 1
    ELSE -1

rfind(s, c) ==
    IF \E i \in 1..Len(s) : s[i] = c
    THEN (CHOOSE i \in 1..Len(s) : s[i] = c /\ \A j \in (i + 1)..Len(s) : s[j] # c) - 1
    ELSE -1

\* s[a:b] for 0 <= a, 0 <= b
Slice(s, a, b) ==
    LET hi == IF b > Len(s) THEN Len(s) ELSE b
    IN  IF a >= hi THEN <<>> ELSE SubSeq(s, a + 1, hi)

-----------------------------------------------------------------------------
(* Scenarios and plans *)

Scenario(title, level) ==
    IF level = "none"
    THEN Dict("title" :> <<title>>)
    ELSE Dict(("title" :> <<title>>) @@ ("level" :> level))

Untagged6 == << Scenario("t1", "none"), Scenario("t2", "none"),
                Scenario("t3", "none"), Scenario("t4", "none"),
                Scenario("t5", "none"), Scenario("t6", "none") >>

Tagged6 == << Scenario("t1", "low"), Scenario("t2", "low"),
              Scenario("t3", "medium"), Scenario("t4", "medium"),
              Scenario("t5", "high"), Scenario("t6", "high") >>

ScenarioLexemes == {"SC0", "SC1", "SC6", "SC6L"}

\* the array a "scenarios" member lexeme carries
ScenariosOf(lex) ==
    CASE lex = "SC0" -> <<>>
      [] lex = "SC1" -> << Scenario("s1", "none") >>
      [] lex = "SC6" -> Untagged6
      [] lex = "SC6L" -> Tagged6

-----------------------------------------------------------------------------
(* json.loads on a lexeme string: [ok, val, rest] *)

ParseFail == [ok |-> FALSE, val |-> None, rest |-> <<>>]

RECURSIVE ParseValue(_)
RECURSIVE ParseMembers(_, _)

ParseValue(s) ==
    IF s = <<>> THEN ParseFail
    ELSE CASE Head(s) = "n" -> [ok |-> TRUE, val |-> Number, rest |-> Tail(s)]
           [] Head(s) = "nul" -> [ok |-> TRUE, val |-> None, rest |-> Tail(s)]
           [] Head(s) = "LB" -> ParseMembers(lstrip(Tail(s)), <<>>)
           [] OTHER -> ParseFail

\* the members of an object after its {; a repeated key keeps the last value
ParseMembers(s, f) ==
    IF s = <<>> THEN ParseFail
    ELSE CASE Head(s) = "RB" -> [ok |-> TRUE, val |-> Dict(f), rest |-> Tail(s)]
           [] Head(s) = "T" ->
                ParseMembers(lstrip(Tail(s)), Put(f, "text", <<"ok">>))
           [] Head(s) = "E" ->
                ParseMembers(lstrip(Tail(s)), Put(f, "emotion", "sad"))
           [] Head(s) \in ScenarioLexemes ->
                ParseMembers(lstrip(Tail(s)),
                             Put(f, "scenarios", List(ScenariosOf(Head(s)))))
           [] Head(s) = "PK" ->
                LET v == ParseValue(lstrip(Tail(s)))
                IN  IF v.ok
                    THEN ParseMembers(lstrip(v.rest), Put(f, "plan", v.val))
                    ELSE ParseFail
           [] OTHER -> ParseFail

json_loads(s) ==
    LET r == ParseValue(lstrip(s))
    IN  IF r.ok /\ lstrip(r.rest) = <<>> THEN r ELSE ParseFail

-----------------------------------------------------------------------------
(* Response extraction, app.py lines 652-680 *)

\* StripFence looking for the first fence where the code looks for the last
StripFence_first_fence(clean) ==
    IF startswith(clean, "F")
    THEN LET first_nl == find(clean, "NL")
             last_fence == find(clean, "F")
         IN  IF first_nl # -1 /\ last_fence # -1
             THEN strip(Slice(clean, first_nl + 1, last_fence))
             ELSE clean
    ELSE clean

\* lines 656-660: keep what a leading fence encloses
StripFence(clean) ==
    IF startswith(clean, "F")
    THEN LET first_nl == find(clean, "NL")
             last_fence == rfind(clean, "F")
         IN  IF first_nl # -1 /\ last_fence # -1
             THEN strip(Slice(clean, first_nl + 1, last_fence))
             ELSE clean
    ELSE clean

\* lines 663-668: the span from the first { to the last }
BraceSlice(clean) ==
    LET start == find(clean, "LB")
        end == rfind(clean, "RB")
    IN  IF start # -1 /\ end # -1 /\ end > start
        THEN Slice(clean, start, end + 1)
        ELSE clean

json_str_of(r) == BraceSlice(StripFence(strip(r)))

\* Extract showing the stripped text, not the raw reply, when parsing fails
Extract_shows_clean(r) ==
    LET p == json_loads(json_str_of(r))
    IN  IF ~p.ok
        THEN [raised |-> FALSE,
              text |-> strip(r), emotion |-> "unknown", plan |-> None]
        ELSE IF ~isinstance_dict(p.val)
        THEN [raised |-> TRUE,
              text |-> r, emotion |-> "unknown", plan |-> None]
        ELSE [raised |-> FALSE,
              text |-> Get(p.val, "text", r),
              emotion |-> Get(p.val, "emotion", "unknown"),
              plan |-> Get(p.val, "plan", None)]

\* lines 670-680.  raised: parsed.get on a parsed value that is no dict
\* (an AttributeError outside the try); the fields are then never computed.
Extract(r) ==
    LET p == json_loads(json_str_of(r))
    IN  IF ~p.ok
        THEN [raised |-> FALSE,
              text |-> r, emotion |-> "unknown", plan |-> None]
        ELSE IF ~isinstance_dict(p.val)
        THEN [raised |-> TRUE,
              text |-> r, emotion |-> "unknown", plan |-> None]
        ELSE LET raw_text == Get(p.val, "text", r)
             IN  [raised |-> FALSE,
                  text |-> Get(p.val, "text", raw_text),
                  emotion |-> Get(p.val, "emotion", "unknown"),
                  plan |-> Get(p.val, "plan", None)]

-----------------------------------------------------------------------------
(* Day/level mapper *)

Days == {1, 2, 3}

level_for_day(day) ==
    IF day = 1 THEN "low"
    ELSE IF day = 2 THEN "medium"
    ELSE "high"

\* lines 127-130: the first two of same_level
TakeTwo(same_level) ==
    IF Len(same_level) >= 2 THEN SubSeq(same_level, 1, 2) ELSE same_level

InSeq(x, s) == \E i \in 1..Len(s) : s[i] = x

\* lines 133-139: fill from the plan, skipping what is selected already
RECURSIVE FillFrom(_, _)
FillFrom(scenarios, selected) ==
    IF scenarios = <<>> THEN selected
    ELSE IF InSeq(Head(scenarios), selected)
    THEN FillFrom(Tail(scenarios), selected)
    ELSE LET sel == Append(selected, Head(scenarios))
         IN  IF Len(sel) >= 2 THEN sel ELSE FillFrom(Tail(scenarios), sel)

HasLevel(s, level_en) ==
    isinstance_dict(s) /\ "level" \in DOMAIN s.val /\ s.val["level"] = level_en

\* scenarios_for_day without the level preference: the first two in plan order
scenarios_for_day_by_position(plan, day) ==
    LET got == Get(plan, "scenarios", List(<<>>))
        scenarios == IF Truthy(got) THEN got.val ELSE <<>>
    IN  FillFrom(scenarios, <<>>)

scenarios_for_day(plan, day) ==
    LET got == Get(plan, "scenarios", List(<<>>))
        scenarios == IF Truthy(got) THEN got.val ELSE <<>>
        level_en == level_for_day(day)
        same_level == SelectSeq(scenarios, LAMBDA s : HasLevel(s, level_en))
        first == TakeTwo(same_level)
        selected == IF Len(first) < 2 THEN FillFrom(scenarios, first) ELSE first
    IN  IF scenarios = <<>> THEN <<>>
        ELSE IF selected # <<>> THEN selected
        ELSE IF Len(scenarios) >= 6
        THEN IF day = 1 THEN Slice(scenarios, 0, 2)
             ELSE IF day = 2 THEN Slice(scenarios, 2, 4)
             ELSE Slice(scenarios, 4, 6)
        ELSE IF Len(scenarios) >= 2 THEN Slice(scenarios, 0, 2)
        ELSE scenarios

-----------------------------------------------------------------------------
(* Extraction alone: every reply  prefix content suffix  with a content of  *)
(* at most MaxBody lexemes is run through Extract, and so is its content.   *)

BodyLexemes == {"LB", "RB", "n", "nul", "T", "E", "PK"}

RECURSIVE SeqsUpTo(_, _)
SeqsUpTo(S, n) ==
    IF n = 0 THEN {<<>>}
    ELSE LET shorter == SeqsUpTo(S, n - 1)
         IN  shorter \cup {Append(s, x) : s \in shorter, x \in S}

Bare == [prefix |-> <<>>, suffix |-> <<>>]
Fence == [prefix |-> <<"F", "NL">>, suffix |-> <<"NL", "F">>]
FenceJson == [prefix |-> <<"F", "w", "NL">>, suffix |-> <<"NL", "F", "NL">>]
OpenFence == [prefix |-> <<"F", "w", "NL">>, suffix |-> <<>>]
Prose == [prefix |-> <<"w", "NL">>, suffix |-> <<"NL", "w">>]
Padded == [prefix |-> <<"NL", "SP">>, suffix |-> <<"SP">>]

Wrappers == {Bare, Fence, FenceJson, OpenFence, Prose, Padded}

Wrap(w, c) == w.prefix \o c \o w.suffix

NotRun == [done |-> FALSE]

ExtractInit ==
    /\ content \in SeqsUpTo(BodyLexemes, MaxBody)
    /\ wrapper \in Wrappers
    /\ extracted = NotRun

ExtractIdle ==
    /\ content = <<>>
    /\ wrapper = Bare
    /\ extracted = NotRun

RunExtract ==
    /\ ~extracted.done
    /\ extracted' = [done |-> TRUE,
                     reply |-> Extract(Wrap(wrapper, content)),
                     inner |-> Extract(content)]
    /\ UNCHANGED <<content, wrapper>>
    /\ UNCHANGED <<progVars, mapperVars>>

-----------------------------------------------------------------------------
(* Scenario selection alone: scenarios_for_day on every plan of at most     *)
(* MaxScenarios scenarios, tagged or not, and on the untagged plans of at   *)
(* most MaxUntagged distinct scenarios, for every day.                      *)

Levels == {"none", "low", "medium", "high"}

AnyScenarios == {Scenario(t, l) : t \in {"a", "b"}, l \in Levels}

\* n scenarios without a level field, titled "1", "2", ...
UntaggedPlan(n) == [i \in 1..n |-> Scenario(ToString(i), "none")]

PlanOf(scenarios) == Dict("scenarios" :> List(scenarios))

MapperPlans ==
    {PlanOf(s) : s \in SeqsUpTo(AnyScenarios, MaxScenarios)}
    \cup {PlanOf(UntaggedPlan(n)) : n \in 0..MaxUntagged}
    \cup {PlanOf(Untagged6), PlanOf(Tagged6), EmptyDict}

MapperInit ==
    /\ mPlan \in MapperPlans
    /\ mDay \in Days
    /\ mSelected = NotRun

MapperIdle ==
    /\ mPlan = EmptyDict
    /\ mDay = 1
    /\ mSelected = NotRun

RunSelect ==
    /\ ~mSelected.done
    /\ mSelected' = [done |-> TRUE, val |-> scenarios_for_day(mPlan, mDay)]
    /\ UNCHANGED <<mPlan, mDay>>
    /\ UNCHANGED <<progVars, extractVars>>

-----------------------------------------------------------------------------
(* The conversation log, logs/chat_logs.csv *)

LOG_HEADERS == <<"timestamp", "participant_id", "day", "agent", "role", "text",
                 "emotion">>

\* str.encode("cp932", errors="replace") of a lexeme string
Cp932(s) == [i \in 1..Len(s) |-> IF s[i] = "emoji" THEN "?" ELSE s[i]]

\* str(day) as csv.writer writes it, and int(...) of the field read back
str_of_int(d) == ToString(d)
int_of_str(f) == CHOOSE d \in 0..9 : ToString(d) = f

NoLogFile == [exists |-> FALSE, header |-> <<>>, rows |-> <<>>]

init_log_file(log) ==
    IF ~log.exists
    THEN [exists |-> TRUE, header |-> LOG_HEADERS, rows |-> <<>>]
    ELSE log

\* log_row writing the new row above the rows already in the file
log_row_newest_first(log, participant_id, day, agent, role, text, emotion) ==
    LET f == init_log_file(log)
        now == Len(f.rows) + 1
    IN  [f EXCEPT !.rows = << <<now, Cp932(participant_id), str_of_int(day),
                                agent, role, Cp932(text), emotion>> >> \o @]

\* the timestamp is the position of the row: later rows carry later times
log_row(log, participant_id, day, agent, role, text, emotion) ==
    LET f == init_log_file(log)
        now == Len(f.rows) + 1
    IN  [f EXCEPT !.rows = Append(@, <<now, Cp932(participant_id), str_of_int(day),
                                        agent, role, Cp932(text), emotion>>)]

\* csv.DictReader: a row as a mapping from the header's names to its fields
DictRow(header, fields) ==
    [k \in {header[i] : i \in 1..Len(header)} |->
        fields[CHOOSE i \in 1..Len(header) : header[i] = k]]

\* KeepPrevious without the agent filter
KeepPrevious_any_agent(row, participant_id, current_day) ==
    /\ row["participant_id"] = participant_id
    /\ ~(int_of_str(row["day"]) >= current_day)

KeepPrevious(row, participant_id, current_day) ==
    /\ row["participant_id"] = participant_id
    /\ row["agent"] = "Agent-P"
    /\ ~(int_of_str(row["day"]) >= current_day)

load_previous_p_history(log, participant_id, current_day) ==
    IF ~log.exists THEN <<>>
    ELSE LET dicts == [i \in 1..Len(log.rows) |-> DictRow(log.header, log.rows[i])]
             rows == SelectSeq(dicts,
                        LAMBDA r : KeepPrevious(r, participant_id, current_day))
             kept == SelectSeq(rows, LAMBDA r : r["role"] \in {"user", "assistant"})
         IN  [i \in 1..Len(kept) |->
                 [role |-> kept[i]["role"], content |-> kept[i]["text"]]]

-----------------------------------------------------------------------------
(* The plan store, plans/<participant>_plan.json *)

\* plan_file_path naming one file for all participants
plan_file_path_shared(participant_id) == <<"_plan.json">>

plan_file_path(participant_id) == participant_id \o <<"_plan.json">>

\* json.dump(plan, indent=2): the text json.loads reads back
RECURSIVE json_dumps(_)
json_dumps(v) ==
    CASE v.type = "null" -> <<"nul">>
      [] v.type = "number" -> <<"n">>
      [] v.type = "dict" ->
            LET has(k) == k \in DOMAIN v.val
                line(m) == <<"NL", "SP">> \o m
            IN  IF DOMAIN v.val = {} THEN <<"LB", "RB">>
                ELSE <<"LB">>
                     \o (IF has("text") THEN line(<<"T">>) ELSE <<>>)
                     \o (IF has("emotion") THEN line(<<"E">>) ELSE <<>>)
                     \o (IF has("plan")
                         THEN line(<<"PK">> \o json_dumps(v.val["plan"]))
                         ELSE <<>>)
                     \o (IF has("scenarios")
                         THEN line(<<CHOOSE lex \in ScenarioLexemes :
                                       ScenariosOf(lex) = v.val["scenarios"].val>>)
                         ELSE <<>>)
                     \o <<"NL", "RB">>

save_plan_to_file(files, participant_id, plan) ==
    Put(files, plan_file_path(participant_id), json_dumps(plan))

load_plan_from_file(files, participant_id) ==
    LET fname == plan_file_path(participant_id)
    IN  IF fname \notin DOMAIN files THEN None
        ELSE json_loads(files[fname]).val

-----------------------------------------------------------------------------
(* Sessions, login and the inputs of a turn *)

Sessions == {"s1", "s2"}

ADMIN_PASSCODE == "changeme"
Passcodes == {"changeme", "guess"}

\* what the login form's participant field may hold
LoginIds == { <<"P01">>, <<"SP", "P01">>, <<"P02">>, <<"SP">> }
ParticipantIds == { strip(i) : i \in LoginIds } \ { <<>> }

Agents == {"Agent-P", "Agent-H"}
UserInputs == { <<"w">> }

\* replies of the model: a plain turn, a fenced six-scenario plan without
\* level tags, a one-scenario plan, a plan without scenarios, a truncated
\* reply after some prose, a bare number
Replies ==
    { <<"LB", "T", "E", "PK", "nul", "RB">>,
      <<"F", "w", "NL", "LB", "T", "PK", "LB", "SC6", "RB", "RB", "NL", "F">>,
      <<"LB", "T", "PK", "LB", "SC1", "RB", "RB">>,
      <<"LB", "E", "PK", "LB", "SC0", "RB", "RB">>,
      <<"w", "emoji", "LB", "T", "NL">>,
      <<"n">> }

LoggedOut ==
    [authenticated |-> FALSE, participant_id |-> <<>>, day |-> 0,
     history_p |-> <<>>, history_h |-> <<>>, plan |-> None]

Idle == [waiting |-> FALSE]

ProgInit ==
    /\ session_state = [s \in Sessions |-> LoggedOut]
    /\ pending = [s \in Sessions |-> Idle]
    /\ logFile = NoLogFile
    /\ planFiles = <<>>
    /\ lastSaved = <<>>
    /\ lastTurn = [kind |-> "start"]

\* Sessions are interchangeable and so are participant names: "s1" is the
\* session that opens first, and the first participant is "P01".
LoginOrder(s, participant_id) ==
    IF s = "s1" THEN strip(participant_id) \in { <<>>, <<"P01">> }
    ELSE session_state["s1"].authenticated

\* lines 413-427: the login form
Login(s, participant_id, day, passcode) ==
    /\ ~session_state[s].authenticated
    /\ LoginOrder(s, participant_id)
    /\ IF strip(participant_id) = <<>> \/ passcode # ADMIN_PASSCODE
       THEN /\ lastTurn' = [kind |-> "login_error", session |-> s]
            /\ UNCHANGED session_state
       ELSE /\ session_state' = [session_state EXCEPT ![s] =
                    [authenticated |-> TRUE,
                     participant_id |-> strip(participant_id),
                     day |-> day,
                     history_p |-> <<>>, history_h |-> <<>>, plan |-> None]]
            /\ lastTurn' = [kind |-> "login", session |-> s]
    /\ UNCHANGED <<pending, logFile, planFiles, lastSaved>>
    /\ UNCHANGED <<extractVars, mapperVars>>

\* lines 472-476
append_history(st, agent, msg) ==
    IF agent = "Agent-P"
    THEN [st EXCEPT !.history_p = Append(@, msg)]
    ELSE [st EXCEPT !.history_h = Append(@, msg)]

\* lines 469-470
get_history(st, agent) == IF agent = "Agent-P" THEN st.history_p ELSE st.history_h

HasScenarios(plan) ==
    Truthy(plan) /\ isinstance_dict(plan)
    /\ Truthy(Get(plan, "scenarios", None))

\* lines 505-580: what the Agent-P header says about the plan
PromptP(st, files) ==
    IF st.day = 1
    THEN [agent |-> "Agent-P", day |-> st.day, block |-> "design",
          scenarios |-> <<>>]
    ELSE LET existing_plan == IF Truthy(st.plan) THEN st.plan
                              ELSE load_plan_from_file(files, st.participant_id)
         IN  IF HasScenarios(existing_plan)
             THEN [agent |-> "Agent-P", day |-> st.day, block |-> "review",
                   scenarios |-> scenarios_for_day(existing_plan, st.day)]
             ELSE [agent |-> "Agent-P", day |-> st.day, block |-> "review_noplan",
                   scenarios |-> <<>>]

\* lines 584-588: the plan Agent-H works from
PlanForH(st, files) ==
    IF ~Truthy(st.plan) THEN load_plan_from_file(files, st.participant_id)
    ELSE st.plan

\* lines 590-609
PromptH(st, plan) ==
    IF HasScenarios(plan)
    THEN LET day_scenarios == scenarios_for_day(plan, st.day)
             s == IF day_scenarios # <<>> THEN day_scenarios[1]
                  ELSE Get(plan, "scenarios", None).val[1]
         IN  [agent |-> "Agent-H", day |-> st.day, block |-> "roleplay",
              scenarios |-> <<s>>]
    ELSE [agent |-> "Agent-H", day |-> st.day, block |-> "fallback",
          scenarios |-> <<>>]

\* lines 505-611: the system prompt of a turn of the session in state st
SystemPrompt(st, agent, files) ==
    IF agent = "Agent-P" THEN PromptP(st, files)
    ELSE PromptH(st, PlanForH(st, files))

\* lines 623-627
Messages(system_prompt, previous_p_history, history) ==
    << [role |-> "system", content |-> system_prompt] >>
    \o previous_p_history
    \o [i \in 1..Len(history) |->
          [role |-> history[i].role, content |-> history[i].content]]

\* rows written, and one more for every reply still awaited
RowsCommitted ==
    Len(logFile.rows) + Cardinality({s \in Sessions : pending[s].waiting})

\* lines 493-644: the script run up to requests.post, which blocks
SendMessage(s, agent, user_input) ==
    /\ session_state[s].authenticated
    /\ ~pending[s].waiting
    /\ RowsCommitted + 2 <= MaxRows
    /\ LET st0 == session_state[s]
           st1 == append_history(st0, agent, [role |-> "user", content |-> user_input])
           log1 == log_row(logFile, st0.participant_id, st0.day, agent, "user",
                           user_input, "")
           plan == PlanForH(st1, planFiles)
           st2 == IF agent = "Agent-H" /\ ~Truthy(st1.plan) /\ Truthy(plan)
                  THEN [st1 EXCEPT !.plan = plan]
                  ELSE st1
           system_prompt == SystemPrompt(st1, agent, planFiles)
           previous_p_history ==
               IF agent = "Agent-P"
               THEN load_previous_p_history(log1, st0.participant_id, st0.day)
               ELSE <<>>
       IN  /\ session_state' = [session_state EXCEPT ![s] = st2]
           /\ logFile' = log1
           /\ pending' = [pending EXCEPT ![s] =
                  [waiting |-> TRUE, agent |-> agent,
                   messages |-> Messages(system_prompt, previous_p_history,
                                         get_history(st2, agent)),
                   system_prompt |-> system_prompt,
                   previous_p_history |-> previous_p_history,
                   planBefore |-> st0.plan,
                   planOnDisk |-> load_plan_from_file(planFiles, st0.participant_id)]]
           /\ lastTurn' = [kind |-> "sent", session |-> s, agent |-> agent]
    /\ UNCHANGED <<planFiles, lastSaved>>
    /\ UNCHANGED <<extractVars, mapperVars>>

\* ReceiveError going on to log the error text as the assistant's reply
ReceiveError_logs_reply(s) ==
    /\ pending[s].waiting
    /\ pending' = [pending EXCEPT ![s] = Idle]
    /\ lastTurn' = [kind |-> "http_error", session |-> s, agent |-> pending[s].agent]
    /\ logFile' = log_row(logFile, session_state[s].participant_id,
                          session_state[s].day, pending[s].agent, "assistant",
                          <<"w">>, "unknown")
    /\ UNCHANGED <<session_state, planFiles, lastSaved>>
    /\ UNCHANGED <<extractVars, mapperVars>>

\* lines 645-647: a status other than 200 stops the run
ReceiveError(s) ==
    /\ pending[s].waiting
    /\ pending' = [pending EXCEPT ![s] = Idle]
    /\ lastTurn' = [kind |-> "http_error", session |-> s, agent |-> pending[s].agent]
    /\ UNCHANGED <<session_state, logFile, planFiles, lastSaved>>
    /\ UNCHANGED <<extractVars, mapperVars>>

\* lines 649-705: status 200 with the reply r as the message content
ReceiveOk(s, r) ==
    /\ pending[s].waiting
    /\ LET st0 == session_state[s]
           agent == pending[s].agent
           x == Extract(r)
           saves == isinstance_dict(x.plan)
           st1 == IF saves THEN [st0 EXCEPT !.plan = x.plan] ELSE st0
           st2 == append_history(st1, agent,
                     [role |-> "assistant", content |-> x.text, emotion |-> x.emotion])
       IN  IF x.raised
           THEN /\ lastTurn' = [kind |-> "exception", session |-> s,
                                agent |-> agent, raw |-> r]
                /\ UNCHANGED <<session_state, logFile, planFiles, lastSaved>>
           ELSE /\ session_state' = [session_state EXCEPT ![s] = st2]
                /\ planFiles' = IF saves
                                THEN save_plan_to_file(planFiles, st0.participant_id,
                                                       x.plan)
                                ELSE planFiles
                /\ lastSaved' = IF saves THEN Put(lastSaved, st0.participant_id, x.plan)
                                ELSE lastSaved
                /\ logFile' = log_row(logFile, st0.participant_id, st0.day, agent,
                                      "assistant", x.text, x.emotion)
                /\ lastTurn' = [kind |-> "replied", session |-> s, agent |-> agent,
                                raw |-> r,
                                result |-> [text |-> x.text, emotion |-> x.emotion,
                                            plan |-> x.plan]]
    /\ pending' = [pending EXCEPT ![s] = Idle]
    /\ UNCHANGED <<extractVars, mapperVars>>

Next ==
    \/ \E s \in Sessions, i \in LoginIds, d \in Days, c \in Passcodes :
           Login(s, i, d, c)
    \/ \E s \in Sessions, a \in Agents, u \in UserInputs : SendMessage(s, a, u)
    \/ \E s \in Sessions : ReceiveError(s)
    \/ \E s \in Sessions, r \in Replies : ReceiveOk(s, r)

-----------------------------------------------------------------------------
(* Specifications *)

Init == ProgInit /\ ExtractIdle /\ MapperIdle
Spec == Init /\ [][Next]_vars

InitExtract == ProgInit /\ ExtractInit /\ MapperIdle
SpecExtract == InitExtract /\ [][RunExtract]_vars

InitMapper == ProgInit /\ ExtractIdle /\ MapperInit
SpecMapper == InitMapper /\ [][RunSelect]_vars

-----------------------------------------------------------------------------
(* Claims about scenario selection, checked under SpecMapper *)

ScenariosOfPlan(plan) ==
    IF "scenarios" \in DOMAIN plan.val THEN plan.val["scenarios"].val ELSE <<>>

NoLevelField(plan) ==
    \A i \in 1..Len(ScenariosOfPlan(plan)) :
        "level" \notin DOMAIN ScenariosOfPlan(plan)[i].val

\* positions of the scenarios tagged with the level of the day
TaggedAt(plan, day) ==
    { i \in 1..Len(ScenariosOfPlan(plan)) :
        /\ "level" \in DOMAIN ScenariosOfPlan(plan)[i].val
        /\ ScenariosOfPlan(plan)[i].val["level"] =
              (CASE day = 1 -> "low" [] day = 2 -> "medium" [] day = 3 -> "high") }

\* C1: for a plan of at least 6 scenarios none of which has a level field,
\* scenarios_for_day returns the positional slice of the day: day 1 the
\* scenarios at indices 0,1, day 2 those at 2,3, day 3 those at 4,5.
C1_PositionalSlice ==
    (mSelected.done /\ NoLevelField(mPlan) /\ Len(ScenariosOfPlan(mPlan)) >= 6)
    => mSelected.val = SubSeq(ScenariosOfPlan(mPlan), 2 * mDay - 1, 2 * mDay)

\* C7: scenarios_for_day returns at most 2 scenarios for any plan and day,
\* and when at least two scenarios carry the level of the day it returns
\* exactly the first two of them, in plan order, whatever precedes them.
C7_AtMostTwoPreferTagged ==
    mSelected.done =>
        /\ Len(mSelected.val) <= 2
        /\ Cardinality(TaggedAt(mPlan, mDay)) >= 2 =>
              \E i, j \in TaggedAt(mPlan, mDay) :
                  /\ i < j
                  /\ \A k \in TaggedAt(mPlan, mDay) : k = i \/ k >= j
                  /\ mSelected.val = << ScenariosOfPlan(mPlan)[i],
                                        ScenariosOfPlan(mPlan)[j] >>

\* C7 witness: two scenarios of the day's level were selected although the
\* plan starts with a scenario of another level
C7_Witness ==
    /\ mSelected.done
    /\ mDay = 2
    /\ Cardinality(TaggedAt(mPlan, mDay)) >= 2
    /\ 1 \notin TaggedAt(mPlan, mDay)
    /\ Len(mSelected.val) = 2

-----------------------------------------------------------------------------
(* Claims about extraction alone, checked under SpecExtract *)

Fences == {Fence, FenceJson}

\* the content is valid structured content: it parses, to a mapping
ValidMapping(c) == json_loads(c).ok /\ isinstance_dict(json_loads(c).val)

HasText(c) == "text" \in DOMAIN json_loads(c).val.val

\* C6: for a reply that is a fenced block around valid structured content,
\* extraction yields the same emotion and plan as extraction of the content
\* alone, and the same text when the content has a text field; when it has
\* none, each text is the raw string that was extracted from.
C6_FencedSameAsContent ==
    (extracted.done /\ wrapper \in Fences /\ ValidMapping(content)) =>
        /\ ~extracted.reply.raised /\ ~extracted.inner.raised
        /\ extracted.reply.emotion = extracted.inner.emotion
        /\ extracted.reply.plan = extracted.inner.plan
        /\ HasText(content) => extracted.reply.text = extracted.inner.text
        /\ ~HasText(content) =>
              /\ extracted.reply.text = Wrap(wrapper, content)
              /\ extracted.inner.text = content

\* C6 as stated: the two extractions yield the same {text, emotion, plan},
\* also when the content has no text field.
C6_Original ==
    (extracted.done /\ wrapper \in Fences /\ ValidMapping(content)) =>
        extracted.reply = extracted.inner

\* C6 witness: a fenced reply whose content has text and emotion was extracted
C6_Witness ==
    /\ extracted.done
    /\ wrapper = FenceJson
    /\ ValidMapping(content)
    /\ HasText(content)
    /\ extracted.reply.emotion = "sad"
    /\ extracted.reply.text = <<"ok">>

-----------------------------------------------------------------------------
(* Claims about a turn, checked under Spec *)

\* session s received the answer to its call in this step
Answered(s) == pending[s].waiting /\ ~pending'[s].waiting

\* the brace-sliced content of the reply does not parse
Malformed(r) == ~json_loads(json_str_of(r)).ok

LastRow(log) == DictRow(log.header, log.rows[Len(log.rows)])

\* C2: extraction of the reply never raises: every reply that arrives with
\* status 200 yields a {text, emotion, plan} result that is shown and logged.
C2_ExtractionNeverRaises == lastTurn.kind # "exception"

\* C3: a peer-role (Agent-H) turn produces a record whose plan is null,
\* leaves the plan files as they were and does not replace the in-memory plan
\* by content of the reply.
C3_PeerTurnKeepsPlan ==
    [][\A s \in Sessions :
          (Answered(s) /\ pending[s].agent = "Agent-H"
                       /\ lastTurn'.kind = "replied") =>
              /\ lastTurn'.result.plan = None
              /\ planFiles' = planFiles
              /\ session_state'[s].plan = session_state[s].plan]_vars

Aborted(s) == Answered(s) /\ lastTurn'.kind = "http_error"

LastMessage(st, agent) == get_history(st, agent)[Len(get_history(st, agent))]

\* what an aborted turn leaves alone, the in-memory plan apart
AbortKeeps(s) ==
    /\ logFile' = logFile
    /\ session_state'[s].history_p = session_state[s].history_p
    /\ session_state'[s].history_h = session_state[s].history_h
    /\ LastMessage(session_state'[s], pending[s].agent).role = "user"
    /\ planFiles' = planFiles
    /\ session_state'[s].authenticated

C8_LoadReturnsLastSaved ==
    \A p \in ParticipantIds :
        load_plan_from_file(planFiles, p) =
            IF p \in DOMAIN lastSaved THEN lastSaved[p] ELSE None

\* C8 witness: "P01" saved a six-scenario plan and then a plan without
\* scenarios, "P02" saved nothing; the later plan is the one loaded
C8_Witness ==
    /\ session_state["s1"].participant_id = <<"P01">>
    /\ Len(session_state["s1"].history_p) = 4
    /\ session_state["s1"].history_p[2].content = <<"ok">>
    /\ session_state["s1"].history_p[4].emotion = "sad"
    /\ load_plan_from_file(planFiles, <<"P01">>) = PlanOf(<<>>)
    /\ load_plan_from_file(planFiles, <<"P02">>) = None
    /\ session_state["s2"].participant_id = <<"P02">>

\* C9: the plan held for a participant, on disk and in a session, is absent
\* or has at least one scenario.
C9_PlanNeverEmpty ==
    /\ \A f \in DOMAIN planFiles : HasScenarios(json_loads(planFiles[f]).val)
    /\ \A s \in Sessions :
          session_state[s].plan = None \/ HasScenarios(session_state[s].plan)

\* positions of the rows of participant p written by Agent-P before day d
PreviousAt(log, p, d) ==
    { i \in 1..Len(log.rows) :
        /\ log.rows[i][2] = p
        /\ log.rows[i][4] = "Agent-P"
        /\ \E e \in 1..(d - 1) : log.rows[i][3] = ToString(e) }

\* C10: load_previous_p_history returns exactly the rows of the participant
\* written by Agent-P on a day before the current one, as role/content pairs
\* in the order of the log.
C10_PreviousHistoryFilter ==
    \A s \in Sessions :
        (lastTurn.kind = "sent" /\ lastTurn.session = s
                                /\ lastTurn.agent = "Agent-P") =>
            LET keep == PreviousAt(logFile, session_state[s].participant_id,
                                   session_state[s].day)
                got == pending[s].previous_p_history
                nth(k) == CHOOSE i \in keep :
                              Cardinality({j \in keep : j < i}) = k - 1
            IN  /\ Len(got) = Cardinality(keep)
                /\ \A k \in 1..Len(got) :
                      got[k] = [role |-> logFile.rows[nth(k)][5],
                                content |-> logFile.rows[nth(k)][6]]

\* C10 witness: the history of an Agent-P turn holds an earlier day's row
\* while the log also holds a peer-role row of the same participant
C10_Witness ==
    /\ lastTurn.kind = "sent"
    /\ lastTurn.agent = "Agent-P"
    /\ Len(pending[lastTurn.session].previous_p_history) >= 1
    /\ \E i \in 1..Len(logFile.rows) :
          /\ logFile.rows[i][2] = session_state[lastTurn.session].participant_id
          /\ logFile.rows[i][4] = "Agent-H"

-----------------------------------------------------------------------------
(* The cached plan of a session and the plan file *)

\* another session of the participant of session s has just saved a plan
\* with scenarios to the plan file, on an Agent-P turn
SavedByOther(s) ==
    /\ lastTurn.kind = "replied"
    /\ lastTurn.agent = "Agent-P"
    /\ lastTurn.session # s
    /\ session_state[lastTurn.session].participant_id =
          session_state[s].participant_id
    /\ HasScenarios(lastTurn.result.plan)
    /\ load_plan_from_file(planFiles, session_state[s].participant_id) =
          lastTurn.result.plan

\* the system prompt a session in state st would get from the plan on disk
PromptFromDisk(st, agent) ==
    SystemPrompt([st EXCEPT !.plan = load_plan_from_file(planFiles,
                                                         st.participant_id)],
                 agent, planFiles)

\* C11: with two sessions of one participant, once the other session has
\* saved a newer plan to disk, the prompt a session composes next (Agent-P
\* on day 2 or 3, or Agent-H) carries the scenarios of the plan on disk, not
\* those of the plan the session has cached.
C11_PromptUsesPlanOnDisk ==
    \A s \in Sessions, agent \in Agents :
        (/\ session_state[s].authenticated
         /\ ~pending[s].waiting
         /\ agent = "Agent-P" => session_state[s].day \in {2, 3}
         /\ SavedByOther(s))
        => SystemPrompt(session_state[s], agent, planFiles).scenarios =
              PromptFromDisk(session_state[s], agent).scenarios

-----------------------------------------------------------------------------
(* The order of the records of a turn in the conversation log *)

CallIssued(s) == ~pending[s].waiting /\ pending'[s].waiting
CallReturned(s) == pending[s].waiting /\ ~pending'[s].waiting

\* the participant, day and agent fields of the records of session s
RowKey(s, agent) ==
    << Cp932(session_state[s].participant_id),
       str_of_int(session_state[s].day), agent >>

KeyOf(row) == << row[2], row[3], row[4] >>

\* one step of the program, seen from the log
TurnStep ==
    LET old == logFile.rows
        new == logFile'.rows
        added == Len(new) = Len(old) + 1
    IN  /\ Len(new) \in {Len(old), Len(old) + 1}
        /\ SubSeq(new, 1, Len(old)) = old
        /\ \A s \in Sessions :
              CallIssued(s) =>
                  /\ added
                  /\ new[Len(new)][5] = "user"
                  /\ KeyOf(new[Len(new)]) = RowKey(s, pending'[s].agent)
                  /\ \A o \in Sessions \ {s} : pending'[o] = pending[o]
        /\ (added /\ new[Len(new)][5] = "user") => \E s \in Sessions : CallIssued(s)
        /\ (added /\ new[Len(new)][5] # "user") =>
              \E s \in Sessions :
                  /\ CallReturned(s)
                  /\ lastTurn'.kind = "replied"
                  /\ lastTurn'.session = s
                  /\ new[Len(new)][5] = "assistant"
                  /\ KeyOf(new[Len(new)]) = RowKey(s, pending[s].agent)

\* while a call is in flight the user's record of the turn is in the log
InFlightLogged ==
    \A s \in Sessions :
        pending[s].waiting =>
            \E i \in 1..Len(logFile.rows) :
                /\ logFile.rows[i][5] = "user"
                /\ KeyOf(logFile.rows[i]) = RowKey(s, pending[s].agent)
                /\ \A j \in (i + 1)..Len(logFile.rows) :
                      (logFile.rows[j][5] = "assistant"
                       /\ KeyOf(logFile.rows[j]) = KeyOf(logFile.rows[i]))
                      => \E o \in Sessions \ {s} : session_state[o].authenticated

\* with one session only, an assistant record directly follows the user
\* record of its turn
SingleSessionOrder ==
    ~session_state["s2"].authenticated =>
        \A i \in 1..Len(logFile.rows) :
            logFile.rows[i][5] = "assistant" =>
                /\ i > 1
                /\ logFile.rows[i - 1][5] = "user"
                /\ KeyOf(logFile.rows[i - 1]) = KeyOf(logFile.rows[i])

\* C12: every user message issues exactly one model call, with the user's
\* record appended to the log by the time the call is in flight; an
\* assistant record (same participant, day and agent) is appended only when
\* a call returns successfully; in a single session every assistant record
\* directly follows the user record of its turn; and no record already in
\* the log is ever changed or removed.
C12_TurnOrdering ==
    /\ [](InFlightLogged /\ SingleSessionOrder)
    /\ [][TurnStep]_vars

\* one session has completed two turns, the other never logged in
C12_Witness ==
    /\ ~session_state["s2"].authenticated
    /\ lastTurn.kind = "replied"
    /\ Len(logFile.rows) = 4
    /\ logFile.rows[2][5] = "assistant"
    /\ logFile.rows[4][5] = "assistant"

====
